---- MODULE Spec2Model ----
(***************************************************************************)
(* IFT-1004 Union: a console ledger.  Accounts and transactions live in    *)
(* two flat text files (utilisateurs.txt, transactions.txt); the main loop *)
(* of ift1004_union.py drives registration, login and transfers.           *)
(*                                                                         *)
(* Text is modelled as a sequence of pieces: a piece is " " (white space), *)
(* "," (the field separator) or a word without either.  A dollar amount    *)
(* typed by the user is modelled in thousandths of a dollar.               *)
(* The date_heure field of a transaction line is not modelled.             *)
(***************************************************************************)
EXTENDS Integers, Sequences, FiniteSets, TLC

\* ------------------------------------------------------------------ bounds
MaxUtilisateurs == 3
MaxTransactions == 5

\* ---------------------------------------------------------- configuration
NOM_UTILISATEUR_ADMIN == <<"ift-1004-union">>

math_inf == -1

FRAIS_TRANSACTIONS ==
    << [min |-> 0,    max |-> 100,      frais |-> 5],
       [min |-> 101,  max |-> 500,      frais |-> 10],
       [min |-> 501,  max |-> 1000,     frais |-> 15],
       [min |-> 1001, max |-> 5000,     frais |-> 20],
       [min |-> 5001, max |-> math_inf, frais |-> 25] >>

\* ------------------------------------------------------------ utilitaires
\* Typed amounts (thousandths of a dollar) whose binary product with 100 falls
\* just below the exact value: float("0.29") * 100 = 28.999999999999996 and
\* float("1024.09") * 100 = 102408.99999999999 (the table covers the amounts
\* this model types; it is not the whole set).
ProduitsTronques == {290, 570, 580, 1024090, 1024100}

\* int(montant_dollars * 100): truncation toward zero of the float product.
convertir_dollars_vers_centimes(montant_dollars) ==
    IF montant_dollars >= 0
    THEN IF montant_dollars \in ProduitsTronques
         THEN (montant_dollars \div 10) - 1
         ELSE montant_dollars \div 10
    ELSE -((-montant_dollars) \div 10)

SOLDE_INITIAL == convertir_dollars_vers_centimes(1000 * 1000)

\* hashlib.sha256(...).hexdigest(): a digest word, never the plaintext.
hacher_mot_de_passe(mot_de_passe) == <<"sha256", mot_de_passe>>

\* ------------------------------------------------------------------ text
RECURSIVE strip(_)
\* str.strip() of a line: the line ends with digits, so only leading white
\* space (at the start of the first field) is removed.
strip(texte) ==
    IF texte # <<>> /\ Head(texte) = " " THEN strip(Tail(texte)) ELSE texte

RECURSIVE split(_)
\* str.split(","): the fields between the separators.
split(texte) ==
    IF \E i \in 1..Len(texte) : texte[i] = ","
    THEN LET i == CHOOSE k \in 1..Len(texte) :
                      texte[k] = "," /\ \A j \in 1..(k - 1) : texte[j] # ","
         IN <<SubSeq(texte, 1, i - 1)>> \o split(SubSeq(texte, i + 1, Len(texte)))
    ELSE <<texte>>

\* A line of utilisateurs.txt is f"{nom},{hachage},{solde}\n", kept as the
\* triple of what was written.
LigneUtilisateur(nom, hachage, solde) == <<nom, hachage, solde>>

\* utilisateur, _, solde = ligne.strip().split(","): ValueError unless the
\* line has exactly three fields.
LigneValide(ligne) == Len(split(strip(ligne[1]))) = 1

utilisateur_lu(ligne) == split(strip(ligne[1]))[1]

\* The lines that unpack and whose username is nom.
LignesDeNom(fichier, nom) ==
    {i \in 1..Len(fichier) :
        LigneValide(fichier[i]) /\ utilisateur_lu(fichier[i]) = nom}

\* The for-loop over the lines with an early return at the first match: the
\* index of the first line that matches or cannot be unpacked, 0 if none.
PremierArret(fichier, correspondantes) ==
    LET arrets == {i \in 1..Len(fichier) :
                      ~LigneValide(fichier[i]) \/ i \in correspondantes}
    IN IF arrets = {} THEN 0
       ELSE CHOOSE i \in arrets : \A j \in arrets : i <= j

\* The loop stops on a line that cannot be unpacked: ValueError.
Leve(fichier, correspondantes) ==
    LET i == PremierArret(fichier, correspondantes)
    IN i # 0 /\ ~LigneValide(fichier[i])

\* The loop stops on a matching line.
Trouve(fichier, correspondantes) ==
    LET i == PremierArret(fichier, correspondantes)
    IN i # 0 /\ LigneValide(fichier[i])

\* ---------------------------------------------------- gestion_utilisateurs
utilisateur_existe(fichier, nom) == Trouve(fichier, LignesDeNom(fichier, nom))

utilisateur_existe_leve(fichier, nom) == Leve(fichier, LignesDeNom(fichier, nom))

\* ------------------------------------------------------------ transactions
recuperer_solde(fichier, nom) ==
    LET i == PremierArret(fichier, LignesDeNom(fichier, nom))
    IN IF i = 0 THEN 0 ELSE fichier[i][3]

recuperer_solde_leve(fichier, nom) == Leve(fichier, LignesDeNom(fichier, nom))

\* The read loop of ajouter_au_solde unpacks every line.
ajouter_au_solde_leve(fichier) ==
    \E i \in 1..Len(fichier) : ~LigneValide(fichier[i])

\* Every line is rewritten from its unpacked fields; every line whose name
\* matches gets the amount added.
ajouter_au_solde(fichier, nom, montant) ==
    [i \in 1..Len(fichier) |->
        LET utilisateur == utilisateur_lu(fichier[i])
        IN LigneUtilisateur(utilisateur, fichier[i][2],
               IF utilisateur = nom THEN fichier[i][3] + montant
                                    ELSE fichier[i][3])]

\* Variant: transactions.txt opened with "w" instead of "a".
enregistrer_transaction_Ecrase(fichier, expediteur, destinataire, montant, frais) ==
    << [expediteur |-> expediteur, destinataire |-> destinataire,
        montant |-> montant, frais |-> frais] >>

\* open(FICHIER_TRANSACTIONS, "a"): one line added at the end.
enregistrer_transaction(fichier, expediteur, destinataire, montant, frais) ==
    Append(fichier, [expediteur |-> expediteur, destinataire |-> destinataire,
                     montant |-> montant, frais |-> frais])

\* Variant: the upper limit of a tier taken as exclusive.
DansTranche_Strict(tranche, montant) ==
    /\ tranche.min <= montant
    /\ (tranche.max = math_inf \/ montant < tranche.max)

DansTranche(tranche, montant) ==
    /\ tranche.min <= montant
    /\ (tranche.max = math_inf \/ montant <= tranche.max)

\* Variant: the product rounded to the nearest cent instead of truncated.
calculer_frais_Arrondi(montant) ==
    LET tranches == {i \in 1..Len(FRAIS_TRANSACTIONS) :
                        DansTranche(FRAIS_TRANSACTIONS[i], montant)}
    IN IF tranches = {} THEN 0
       ELSE LET i == CHOOSE k \in tranches : \A j \in tranches : k <= j
            IN (montant * FRAIS_TRANSACTIONS[i].frais + 50) \div 100

\* for tranche in FRAIS_TRANSACTIONS: the first tier, in list order, that
\* holds montant; int(montant * frais / 100) truncates.
calculer_frais(montant) ==
    LET tranches == {i \in 1..Len(FRAIS_TRANSACTIONS) :
                        DansTranche(FRAIS_TRANSACTIONS[i], montant)}
    IN IF tranches = {} THEN 0
       ELSE LET i == CHOOSE k \in tranches : \A j \in tranches : k <= j
            IN (montant * FRAIS_TRANSACTIONS[i].frais) \div 100

\* ------------------------------------------------------------------ state
VARIABLES
    fichier_utilisateurs,   \* utilisateurs.txt: the lines, in file order
    fichier_transactions,   \* transactions.txt: the lines, in file order
    pc,                     \* where main() stands
    nom_utilisateur,        \* main(): the name returned by the last login
    retour                  \* the last call made by main(): what it returned,
                            \* what it printed, how often it rewrote
                            \* utilisateurs.txt

vars == <<fichier_utilisateurs, fichier_transactions, pc, nom_utilisateur, retour>>

\* ----------------------------------------------------------------- inputs
\* Typed names: empty, two plain names, a name with a leading blank, a name
\* with a comma.
Noms == { <<>>, <<"alice">>, <<"bob">>, <<" ", "bob">>, <<"a", ",", "b">> }

\* Passwords typed at registration and at login.
MotsDePasse == { "", "pw123" }
MotsDePasseConnexion == MotsDePasse \cup { "wrong" }

\* Typed amounts, in thousandths of a dollar: -1 $, 0 $, 800.005 $, 1024.09 $.
Montants == { -1000, 0, 800005, 1024090 }

Aucun == <<>>

Retour(op, val, message, reecritures) ==
    [op |-> op, val |-> val, message |-> message, reecritures |-> reecritures]

Init ==
    /\ fichier_utilisateurs = <<>>
    /\ fichier_transactions = <<>>
    /\ pc = "menu_principal"
    /\ nom_utilisateur = Aucun
    /\ retour = Retour("main", "None", "Bienvenue sur IFT-1004 Union !", 0)

\* ------------------------------------------------- enregistrer_utilisateur
IdentifiantsVides(nom, mot_de_passe) == nom = <<>> \/ mot_de_passe = ""

EnregistrerUtilisateur(nom, mot_de_passe) ==
    /\ pc = "menu_principal"
    /\ nom_utilisateur' = nom_utilisateur
    /\ IF IdentifiantsVides(nom, mot_de_passe)
       THEN /\ retour' = Retour("enregistrer_utilisateur", "False",
                   "Le nom d'utilisateur et le mot de passe ne peuvent pas etre vides.", 0)
            /\ UNCHANGED <<fichier_utilisateurs, fichier_transactions, pc>>
       ELSE IF utilisateur_existe_leve(fichier_utilisateurs, nom)
       THEN /\ retour' = Retour("enregistrer_utilisateur", "exception", "ValueError", 0)
            /\ pc' = "plante"
            /\ UNCHANGED <<fichier_utilisateurs, fichier_transactions>>
       ELSE IF utilisateur_existe(fichier_utilisateurs, nom)
       THEN /\ retour' = Retour("enregistrer_utilisateur", "False",
                   "Ce nom d'utilisateur existe deja.", 0)
            /\ UNCHANGED <<fichier_utilisateurs, fichier_transactions, pc>>
       ELSE /\ Len(fichier_utilisateurs) < MaxUtilisateurs
            /\ Len(fichier_transactions) < MaxTransactions
            /\ fichier_utilisateurs' =
                   Append(fichier_utilisateurs,
                          LigneUtilisateur(nom, hacher_mot_de_passe(mot_de_passe),
                                           SOLDE_INITIAL))
            /\ fichier_transactions' =
                   enregistrer_transaction(fichier_transactions,
                       NOM_UTILISATEUR_ADMIN, nom, SOLDE_INITIAL, 0)
            /\ retour' = Retour("enregistrer_utilisateur", "True",
                   "Utilisateur enregistre avec succes.", 0)
            /\ pc' = pc

\* --------------------------------------------------- connecter_utilisateur
\* utilisateur == nom_utilisateur and compare_digest(hacher(...), mot_de_passe_hache)
LignesDIdentifiants(fichier, nom, mot_de_passe) ==
    {i \in LignesDeNom(fichier, nom) :
        hacher_mot_de_passe(mot_de_passe) = fichier[i][2]}

ConnecterUtilisateur(nom, mot_de_passe) ==
    LET correspondantes ==
            LignesDIdentifiants(fichier_utilisateurs, nom, mot_de_passe)
    IN
    /\ pc = "menu_principal"
    /\ UNCHANGED <<fichier_utilisateurs, fichier_transactions>>
    /\ IF Leve(fichier_utilisateurs, correspondantes)
       THEN /\ retour' = Retour("connecter_utilisateur", "exception", "ValueError", 0)
            /\ pc' = "plante"
            /\ nom_utilisateur' = nom_utilisateur
       ELSE IF Trouve(fichier_utilisateurs, correspondantes)
       THEN /\ retour' = Retour("connecter_utilisateur", "nom_utilisateur",
                                "Connecte avec succes.", 0)
            \* main(): "if nom_utilisateur:" -- an empty name is falsy
            /\ IF nom # <<>>
               THEN pc' = "menu_utilisateur" /\ nom_utilisateur' = nom
               ELSE pc' = pc /\ nom_utilisateur' = nom_utilisateur
       ELSE /\ retour' = Retour("connecter_utilisateur", "None",
                                "Nom d'utilisateur ou mot de passe incorrect.", 0)
            /\ UNCHANGED <<pc, nom_utilisateur>>

\* ---------------------------------------------------------- envoyer_argent
\* Mutant: the test of the receiver is inverted.
EnvoiASoiMeme_Inverse(destinataire, expediteur) == destinataire # expediteur

\* if destinataire == nom_utilisateur
EnvoiASoiMeme(destinataire, expediteur) == destinataire = expediteur

\* Mutant: a zero amount passes.
MontantNonPositif_Strict(montant_dollars) == montant_dollars < 0

\* if montant_dollars <= 0
MontantNonPositif(montant_dollars) == montant_dollars <= 0

\* Mutant: the fee is left out of the comparison.
FondsInsuffisants_SansFrais(solde_exp, montant_centimes, frais) ==
    solde_exp < montant_centimes

\* if solde_exp < montant_centimes + frais
FondsInsuffisants(solde_exp, montant_centimes, frais) ==
    solde_exp < montant_centimes + frais

\* The printed refusal of envoyer_argent, "" when no check refuses.
EnvoiRefus(destinataire, montant_dollars) ==
    LET montant_centimes == convertir_dollars_vers_centimes(montant_dollars)
        frais == calculer_frais(montant_centimes)
    IN IF EnvoiASoiMeme(destinataire, nom_utilisateur)
       THEN "Vous ne pouvez pas vous envoyer de l'argent a vous-meme."
       ELSE IF MontantNonPositif(montant_dollars)
       THEN "Le montant doit etre positif."
       ELSE IF /\ ~recuperer_solde_leve(fichier_utilisateurs, nom_utilisateur)
               /\ FondsInsuffisants(
                      recuperer_solde(fichier_utilisateurs, nom_utilisateur),
                      montant_centimes, frais)
       THEN "Fonds insuffisants."
       ELSE ""

\* A read of utilisateurs.txt on the way raises ValueError.
EnvoiLeve(destinataire, montant_dollars) ==
    /\ EnvoiRefus(destinataire, montant_dollars) = ""
    /\ \/ recuperer_solde_leve(fichier_utilisateurs, nom_utilisateur)
       \/ recuperer_solde_leve(fichier_utilisateurs, destinataire)
       \/ ajouter_au_solde_leve(fichier_utilisateurs)

\* The transfer passes every check and reaches the writes.
EnvoiAccepte(destinataire, montant_dollars) ==
    /\ EnvoiRefus(destinataire, montant_dollars) = ""
    /\ ~EnvoiLeve(destinataire, montant_dollars)

\* utilisateurs.txt after ajouter_au_solde(nom_utilisateur, -montant - frais)
ApresDebit(destinataire, montant_dollars) ==
    LET montant_centimes == convertir_dollars_vers_centimes(montant_dollars)
        frais == calculer_frais(montant_centimes)
    IN ajouter_au_solde(fichier_utilisateurs, nom_utilisateur,
                        -montant_centimes - frais)

\* utilisateurs.txt after ajouter_au_solde(destinataire, montant) as well
ApresCredit(destinataire, montant_dollars) ==
    ajouter_au_solde(ApresDebit(destinataire, montant_dollars), destinataire,
                     convertir_dollars_vers_centimes(montant_dollars))

EnvoyerArgent(destinataire, montant_dollars) ==
    LET montant_centimes == convertir_dollars_vers_centimes(montant_dollars)
        frais == calculer_frais(montant_centimes)
        refus == EnvoiRefus(destinataire, montant_dollars)
    IN
    /\ pc = "menu_utilisateur"
    /\ nom_utilisateur' = nom_utilisateur
    /\ IF refus # ""
       THEN /\ retour' = Retour("envoyer_argent", "False", refus, 0)
            /\ UNCHANGED <<fichier_utilisateurs, fichier_transactions, pc>>
       ELSE IF EnvoiLeve(destinataire, montant_dollars)
       THEN /\ retour' = Retour("envoyer_argent", "exception", "ValueError", 0)
            /\ pc' = "plante"
            /\ UNCHANGED <<fichier_utilisateurs, fichier_transactions>>
       ELSE /\ Len(fichier_transactions) < MaxTransactions
            /\ fichier_utilisateurs' = ApresCredit(destinataire, montant_dollars)
            /\ fichier_transactions' =
                   enregistrer_transaction(fichier_transactions, nom_utilisateur,
                                           destinataire, montant_centimes, frais)
            /\ retour' = Retour("envoyer_argent", "True",
                                "Transaction effectuee avec succes.", 2)
            /\ pc' = pc

\* float(input(...)) on text that is not a number: ValueError.
EnvoyerArgentMontantInvalide ==
    /\ pc = "menu_utilisateur"
    /\ retour' = Retour("envoyer_argent", "exception", "ValueError", 0)
    /\ pc' = "plante"
    /\ UNCHANGED <<fichier_utilisateurs, fichier_transactions, nom_utilisateur>>

\* The process stops inside envoyer_argent after `etape` rewrites of
\* utilisateurs.txt, before the line is appended to transactions.txt.
ArretPendantEnvoi(destinataire, montant_dollars, etape) ==
    /\ pc = "menu_utilisateur"
    /\ EnvoiAccepte(destinataire, montant_dollars)
    /\ fichier_utilisateurs' =
           IF etape = 1 THEN ApresDebit(destinataire, montant_dollars)
                        ELSE ApresCredit(destinataire, montant_dollars)
    /\ retour' = Retour("envoyer_argent", "arret", "", etape)
    /\ pc' = "arrete"
    /\ UNCHANGED <<fichier_transactions, nom_utilisateur>>

\* ---------------------------------------------------------------- queries
ConsulterSolde ==
    /\ pc = "menu_utilisateur"
    /\ UNCHANGED <<fichier_utilisateurs, fichier_transactions, nom_utilisateur>>
    /\ IF recuperer_solde_leve(fichier_utilisateurs, nom_utilisateur)
       THEN /\ retour' = Retour("consulter_solde", "exception", "ValueError", 0)
            /\ pc' = "plante"
       ELSE /\ retour' = Retour("consulter_solde", "None", "Solde actuel", 0)
            /\ pc' = pc

\* expediteur, destinataire, montant, frais, date_heure = ligne.strip().split(",")
TransactionValide(ligne) ==
    Len(split(strip(ligne.expediteur))) + Len(split(ligne.destinataire)) = 2

\* divmod(montant_centimes, 100), then f"{dollars:,.2f} $" if centimes != 0
\* else f"{dollars:,.0f} $": the whole dollars, followed by ".00 $" when there
\* are cents and by " $" when there are none.
formater_argent(montant_centimes) ==
    <<montant_centimes \div 100,
      IF montant_centimes % 100 # 0 THEN ".00 $" ELSE " $">>

\* [date_heure, expediteur, destinataire, montant_formatte, frais_formatte]
LigneDeTableau(ligne) ==
    [expediteur |-> split(strip(ligne.expediteur))[1],
     destinataire |-> ligne.destinataire,
     montant |-> formater_argent(ligne.montant),
     frais |-> formater_argent(ligne.frais)]

RECURSIVE transactions_utilisateur(_, _)
\* The rows appended by the loop over the lines, in file order.
transactions_utilisateur(fichier, nom) ==
    IF fichier = <<>> THEN <<>>
    ELSE LET avant == transactions_utilisateur(SubSeq(fichier, 1, Len(fichier) - 1), nom)
             rangee == LigneDeTableau(fichier[Len(fichier)])
         IN IF rangee.expediteur = nom \/ rangee.destinataire = nom
            THEN Append(avant, rangee)
            ELSE avant

ConsulterTransactions ==
    /\ pc = "menu_utilisateur"
    /\ UNCHANGED <<fichier_utilisateurs, fichier_transactions, nom_utilisateur>>
    /\ IF \E i \in 1..Len(fichier_transactions) :
              ~TransactionValide(fichier_transactions[i])
       THEN /\ retour' = Retour("consulter_transactions", "exception", "ValueError", 0)
            /\ pc' = "plante"
       ELSE LET tableau == transactions_utilisateur(fichier_transactions,
                                                   nom_utilisateur)
            IN /\ retour' = [tableau |-> tableau]
                            @@ Retour("consulter_transactions", "None",
                                   IF tableau # <<>>
                                   THEN "Date/Heure"
                                   ELSE "Aucune transaction trouvee pour cet utilisateur.",
                                   0)
               /\ pc' = pc

\* ------------------------------------------------------------------- main
\* Variant: option 4 without "connecte = False".
SeDeconnecter_SansSortie ==
    /\ pc = "menu_utilisateur"
    /\ retour' = Retour("main", "None", "Menu Principal", 0)
    /\ UNCHANGED <<fichier_utilisateurs, fichier_transactions, pc, nom_utilisateur>>

\* action_utilisateur == 4: connecte = False, back to the outer loop.
SeDeconnecter ==
    /\ pc = "menu_utilisateur"
    /\ pc' = "menu_principal"
    /\ nom_utilisateur' = Aucun
    /\ retour' = Retour("main", "None", "Menu Principal", 0)
    /\ UNCHANGED <<fichier_utilisateurs, fichier_transactions>>

Quitter ==
    /\ pc = "menu_principal"
    /\ pc' = "termine"
    /\ retour' = Retour("main", "None", "", 0)
    /\ UNCHANGED <<fichier_utilisateurs, fichier_transactions, nom_utilisateur>>

\* A number that is not an entry of the menu shown.
ActionInvalide ==
    /\ pc \in {"menu_principal", "menu_utilisateur"}
    /\ retour' = Retour("main", "None",
           IF pc = "menu_principal" THEN "Action invalide."
                                    ELSE "Action utilisateur invalide.", 0)
    /\ UNCHANGED <<fichier_utilisateurs, fichier_transactions, pc, nom_utilisateur>>

\* int(input(...)) on text that is not a number: ValueError.
ActionNonNumerique ==
    /\ pc \in {"menu_principal", "menu_utilisateur"}
    /\ retour' = Retour("main", "exception", "ValueError", 0)
    /\ pc' = "plante"
    /\ UNCHANGED <<fichier_utilisateurs, fichier_transactions, nom_utilisateur>>

Next ==
    \/ \E nom \in Noms, mot_de_passe \in MotsDePasse :
           EnregistrerUtilisateur(nom, mot_de_passe)
    \/ \E nom \in Noms, mot_de_passe \in MotsDePasseConnexion :
           ConnecterUtilisateur(nom, mot_de_passe)
    \/ \E destinataire \in Noms, montant_dollars \in Montants :
           EnvoyerArgent(destinataire, montant_dollars)
    \/ EnvoyerArgentMontantInvalide
    \/ \E destinataire \in Noms, montant_dollars \in Montants, etape \in 1..2 :
           ArretPendantEnvoi(destinataire, montant_dollars, etape)
    \/ ConsulterSolde
    \/ ConsulterTransactions
    \/ SeDeconnecter
    \/ Quitter
    \/ ActionInvalide
    \/ ActionNonNumerique

Spec == Init /\ [][Next]_vars

\* ================================================================ claims
DerniereTransaction(fichier) == fichier[Len(fichier)]

\* C1: every transfer that reports success leaves the sender's stored balance
\* at its balance before minus (amount + fee) and the receiver's stored
\* balance at its balance before plus amount, with fee = calculer_frais(amount).
C1_TransfertReussi ==
    [][ \A destinataire \in Noms, montant_dollars \in Montants :
          (EnvoyerArgent(destinataire, montant_dollars) /\ retour'.val = "True")
          => LET t == DerniereTransaction(fichier_transactions')
             IN /\ t.frais = calculer_frais(t.montant)
                /\ recuperer_solde(fichier_utilisateurs', nom_utilisateur)
                     = recuperer_solde(fichier_utilisateurs, nom_utilisateur)
                       - (t.montant + t.frais)
                /\ recuperer_solde(fichier_utilisateurs', destinataire)
                     = recuperer_solde(fichier_utilisateurs, destinataire)
                       + t.montant ]_vars

\* C2: a transfer whose receiver is not a registered account is rejected: it
\* does not report success, the sender's balance is not debited and no
\* transaction line is appended.
C2_DestinataireInconnuRejete ==
    [][ \A destinataire \in Noms, montant_dollars \in Montants :
          (/\ EnvoyerArgent(destinataire, montant_dollars)
           /\ ~utilisateur_existe_leve(fichier_utilisateurs, destinataire)
           /\ ~utilisateur_existe(fichier_utilisateurs, destinataire))
          => /\ retour'.val # "True"
             /\ recuperer_solde(fichier_utilisateurs', nom_utilisateur)
                  = recuperer_solde(fichier_utilisateurs, nom_utilisateur)
             /\ fichier_transactions' = fichier_transactions ]_vars

\* C3: debit, credit and log line are one unit: a step of envoyer_argent
\* rewrites utilisateurs.txt at most once, and any step of it that changes a
\* stored balance, the process stopping midway included, also appends the
\* transaction line.
C3_TransfertIndivisible ==
    [][ retour'.op = "envoyer_argent"
        => /\ retour'.reecritures <= 1
           /\ (\E i \in 1..Len(fichier_utilisateurs) :
                   fichier_utilisateurs'[i][3] # fichier_utilisateurs[i][3])
              => Len(fichier_transactions') = Len(fichier_transactions) + 1 ]_vars

\* C4: in every reachable state the stored balance of every account line that
\* is not the administrative account's is at least 0.
C4_SoldesNonNegatifs ==
    \A i \in 1..Len(fichier_utilisateurs) :
        utilisateur_lu(fichier_utilisateurs[i]) # NOM_UTILISATEUR_ADMIN
        => fichier_utilisateurs[i][3] >= 0

\* A step of envoyer_argent that refuses the transfer and writes nothing.
EnvoiRejete ==
    /\ retour'.val = "False"
    /\ UNCHANGED <<fichier_utilisateurs, fichier_transactions>>

\* C5: a transfer with sender balance < amount in cents + fee is rejected and
\* leaves both files (hence both balances and the log) unchanged: a step of
\* envoyer_argent is such a rejection unless it was not made with such inputs.
C5_FondsInsuffisantsRejete ==
    [][ retour'.op = "envoyer_argent"
        => \/ EnvoiRejete
           \/ \A destinataire \in Noms, montant_dollars \in Montants :
                EnvoyerArgent(destinataire, montant_dollars)
                => ~(recuperer_solde(fichier_utilisateurs, nom_utilisateur)
                       < convertir_dollars_vers_centimes(montant_dollars)
                         + calculer_frais(
                               convertir_dollars_vers_centimes(montant_dollars))) ]_vars

C5_Temoin ==
    /\ retour.op = "envoyer_argent"
    /\ retour.val = "False"
    /\ retour.message = "Fonds insuffisants."

\* C6: a transfer whose receiver equals the sender is rejected for every
\* balance and every amount, and leaves both files unchanged: a step of
\* envoyer_argent is such a rejection unless its receiver is not the sender.
C6_EnvoiASoiMemeRejete ==
    [][ retour'.op = "envoyer_argent"
        => \/ EnvoiRejete
           \/ \A destinataire \in Noms, montant_dollars \in Montants :
                EnvoyerArgent(destinataire, montant_dollars)
                => destinataire # nom_utilisateur ]_vars

C6_Temoin ==
    /\ retour.op = "envoyer_argent"
    /\ retour.val = "False"
    /\ retour.message = "Vous ne pouvez pas vous envoyer de l'argent a vous-meme."
    /\ Len(fichier_transactions) >= 2

\* C7: a transfer with amount <= 0 is rejected and leaves both files
\* unchanged: a step of envoyer_argent is such a rejection unless its amount
\* is positive.
C7_MontantNonPositifRejete ==
    [][ retour'.op = "envoyer_argent"
        => \/ EnvoiRejete
           \/ \A destinataire \in Noms, montant_dollars \in Montants :
                EnvoyerArgent(destinataire, montant_dollars)
                => montant_dollars > 0 ]_vars

C7_Temoin ==
    /\ retour.op = "envoyer_argent"
    /\ retour.val = "False"
    /\ retour.message = "Le montant doit etre positif."

\* The funding lines of the log for the name u.
LignesDeFinancement(fichier, u) ==
    {i \in 1..Len(fichier) :
        /\ fichier[i].expediteur = NOM_UTILISATEUR_ADMIN
        /\ fichier[i].destinataire = u
        /\ fichier[i].montant = SOLDE_INITIAL
        /\ fichier[i].frais = 0}

\* C8: right after every successful registration of u the stored balance of u
\* reads SOLDE_INITIAL and the log holds exactly one line from the
\* administrative account to u with amount SOLDE_INITIAL and fee 0.
C8_EnregistrementReussi ==
    [][ \A nom \in Noms, mot_de_passe \in MotsDePasse :
          (EnregistrerUtilisateur(nom, mot_de_passe) /\ retour'.val = "True")
          => /\ ~recuperer_solde_leve(fichier_utilisateurs', nom)
             /\ recuperer_solde(fichier_utilisateurs', nom) = SOLDE_INITIAL
             /\ Cardinality(LignesDeFinancement(fichier_transactions', nom)) = 1 ]_vars

\* C9: a registration with an empty username, an empty password or a username
\* registered before does not succeed and leaves both files unchanged.
C9_EnregistrementRefuse ==
    [][ \A nom \in Noms, mot_de_passe \in MotsDePasse :
          (/\ EnregistrerUtilisateur(nom, mot_de_passe)
           /\ \/ nom = <<>>
              \/ mot_de_passe = ""
              \/ LignesDeFinancement(fichier_transactions, nom) # {})
          => /\ retour'.val # "True"
             /\ UNCHANGED <<fichier_utilisateurs, fichier_transactions>> ]_vars

\* C10: usernames are unique: no two lines of utilisateurs.txt read back, by
\* the store's own unpacking, with the same username.
C10_NomsUniques ==
    \A i, j \in 1..Len(fichier_utilisateurs) :
        (/\ i # j
         /\ LigneValide(fichier_utilisateurs[i])
         /\ LigneValide(fichier_utilisateurs[j]))
        => utilisateur_lu(fichier_utilisateurs[i])
             # utilisateur_lu(fichier_utilisateurs[j])

\* ------------------------------ runs where the administrative name is typed
\* Typed names: empty, a plain name and the administrative account's name.
NomsAdmin == { <<>>, <<"alice">>, NOM_UTILISATEUR_ADMIN }

NextAdmin ==
    \/ \E nom \in NomsAdmin, mot_de_passe \in MotsDePasse :
           EnregistrerUtilisateur(nom, mot_de_passe)
    \/ \E nom \in NomsAdmin, mot_de_passe \in MotsDePasseConnexion :
           ConnecterUtilisateur(nom, mot_de_passe)
    \/ \E destinataire \in NomsAdmin, montant_dollars \in Montants :
           EnvoyerArgent(destinataire, montant_dollars)
    \/ EnvoyerArgentMontantInvalide
    \/ \E destinataire \in NomsAdmin, montant_dollars \in Montants, etape \in 1..2 :
           ArretPendantEnvoi(destinataire, montant_dollars, etape)
    \/ ConsulterSolde
    \/ ConsulterTransactions
    \/ SeDeconnecter
    \/ Quitter
    \/ ActionInvalide
    \/ ActionNonNumerique

SpecAdmin == Init /\ [][NextAdmin]_vars

\* C11: a successful registration credits only the new account: no line is
\* created for the administrative account, whose balance reads as before, and
\* every line written before keeps its balance.
C11_EnregistrementNeCrediteQueLeNouveau ==
    [][ (retour'.op = "enregistrer_utilisateur" /\ retour'.val = "True")
        => /\ LignesDeNom(fichier_utilisateurs', NOM_UTILISATEUR_ADMIN)
                = LignesDeNom(fichier_utilisateurs, NOM_UTILISATEUR_ADMIN)
           /\ recuperer_solde(fichier_utilisateurs', NOM_UTILISATEUR_ADMIN)
                = recuperer_solde(fichier_utilisateurs, NOM_UTILISATEUR_ADMIN)
           /\ \A i \in 1..Len(fichier_utilisateurs) :
                  fichier_utilisateurs'[i] = fichier_utilisateurs[i] ]_vars

\* ------------------------------------------------ calculer_frais on its own
\* How far from the lower limit of each tier the amounts passed go.
Voisinage == 12

\* Amounts in cents passed to calculer_frais: those within Voisinage of the
\* lower limit of a tier, and 100 $ and 200 $.
MontantsDeFrais ==
    UNION { {m \in (FRAIS_TRANSACTIONS[i].min - Voisinage)
                     ..(FRAIS_TRANSACTIONS[i].min + Voisinage) : m >= 0}
            : i \in 1..Len(FRAIS_TRANSACTIONS) }
    \cup {10000, 20000}

\* frais = calculer_frais(montant_centimes): retour keeps the argument too.
CalculerFrais(montant) ==
    /\ retour' = [montant |-> montant]
                 @@ Retour("calculer_frais", calculer_frais(montant), "", 0)
    /\ UNCHANGED <<fichier_utilisateurs, fichier_transactions, pc, nom_utilisateur>>

NextFrais == \E montant \in MontantsDeFrais : CalculerFrais(montant)

SpecFrais == Init /\ [][NextFrais]_vars

\* C12: with the configured tiers the fee of 10000 cents is 500 and the fee
\* of 20000 cents is 2000.
C12_FraisDesExemples ==
    retour.op = "calculer_frais"
    => /\ retour.montant = 10000 => retour.val = 500
       /\ retour.montant = 20000 => retour.val = 2000

RECURSIVE PremiereTranche(_, _)
\* The first tier at or after index i, in list order, with
\* min <= montant <= max; 0 when there is none.
PremiereTranche(i, montant) ==
    IF i > Len(FRAIS_TRANSACTIONS) THEN 0
    ELSE IF /\ FRAIS_TRANSACTIONS[i].min <= montant
            /\ \/ FRAIS_TRANSACTIONS[i].max = math_inf
               \/ montant <= FRAIS_TRANSACTIONS[i].max
         THEN i
         ELSE PremiereTranche(i + 1, montant)

\* C13: for every amount >= 0 the fee returned is a natural number f with
\* f <= amount * rate / 100 < f + 1 for the rate of the first tier in list
\* order that holds the amount, 0 when no tier holds it, and the call changes
\* neither file nor the session.
C13_FraisDeLaPremiereTranche ==
    [][ retour'.op = "calculer_frais"
        => LET m == retour'.montant
               f == retour'.val
               i == PremiereTranche(1, m)
           IN /\ f \in Nat
              /\ IF i = 0 THEN f = 0
                 ELSE /\ 100 * f <= m * FRAIS_TRANSACTIONS[i].frais
                      /\ m * FRAIS_TRANSACTIONS[i].frais < 100 * (f + 1)
              /\ UNCHANGED <<fichier_utilisateurs, fichier_transactions,
                             pc, nom_utilisateur>> ]_vars

C13_Temoin ==
    /\ retour.op = "calculer_frais"
    /\ retour.montant = 501
    /\ retour.val = 75

\* C14: the fee never decreases with the amount: of two calls, the one with
\* the larger amount returns at least the fee of the other, inside a tier and
\* from one tier to the next.
C14_FraisCroissants ==
    [][ (/\ retour.op = "calculer_frais"
         /\ retour'.op = "calculer_frais"
         /\ retour.montant <= retour'.montant)
        => retour.val <= retour'.val ]_vars

C14_Temoin ==
    /\ retour.op = "calculer_frais"
    /\ retour.montant = 101
    /\ retour.val = 10

RECURSIVE LignesImpliquant(_, _)
\* The lines of the log whose sender or receiver is u, in append order.
LignesImpliquant(fichier, u) ==
    IF fichier = <<>> THEN <<>>
    ELSE LET reste == LignesImpliquant(Tail(fichier), u)
         IN IF Head(fichier).expediteur = u \/ Head(fichier).destinataire = u
            THEN <<Head(fichier)>> \o reste
            ELSE reste

\* The k-th row shown is the k-th of the lines: same sender, same receiver,
\* the dollars of its amount and of its fee.
RangeesDesLignes(tableau, lignes) ==
    /\ Len(tableau) = Len(lignes)
    /\ \A k \in 1..Len(lignes) :
           /\ tableau[k].expediteur = lignes[k].expediteur
           /\ tableau[k].destinataire = lignes[k].destinataire
           /\ tableau[k].montant[1] = lignes[k].montant \div 100
           /\ tableau[k].frais[1] = lignes[k].frais \div 100

\* C15: whatever was appended to the log, the history query of the logged-in
\* user u returns, and shows exactly the logged lines whose sender or
\* receiver is u: none missing, none added, in append order.
C15_HistoriqueExact ==
    retour.op = "consulter_transactions"
    => /\ retour.val = "None"
       /\ RangeesDesLignes(retour.tableau,
              LignesImpliquant(fichier_transactions, nom_utilisateur))

\* C16: the log is append-only: over every step (registration, login,
\* transfer, balance query, history query, menu) the log before the step is a
\* prefix of the log after it.
C16_JournalEnAjoutSeul ==
    [][ /\ Len(fichier_transactions) <= Len(fichier_transactions')
        /\ \A i \in 1..Len(fichier_transactions) :
               fichier_transactions'[i] = fichier_transactions[i] ]_vars

C16_Temoin ==
    /\ Len(fichier_transactions) >= 3
    /\ retour.op = "envoyer_argent"
    /\ retour.val = "True"

\* A step that reports the success of a registration or of a transfer.
SuccesRapporte ==
    /\ retour'.op \in {"enregistrer_utilisateur", "envoyer_argent"}
    /\ retour'.val = "True"

\* C17: the log holds one line for each successful registration and each
\* transfer that reported success, and no other: a step that reports such a
\* success makes the log exactly one line longer, and every other step,
\* failed operations included, leaves its length as it is.
C17_UneLigneParSucces ==
    [][ Len(fichier_transactions') =
            Len(fichier_transactions) + (IF SuccesRapporte THEN 1 ELSE 0) ]_vars

C17_Temoin ==
    /\ Len(fichier_transactions) = 4
    /\ retour.op = "envoyer_argent"
    /\ retour.val = "False"
    /\ retour.message = "Fonds insuffisants."

RECURSIVE Financements(_)
\* The lines of the log written by registrations, in order: the j-th one was
\* appended together with the j-th line of utilisateurs.txt.
Financements(fichier) ==
    IF fichier = <<>> THEN <<>>
    ELSE IF Head(fichier).expediteur = NOM_UTILISATEUR_ADMIN
         THEN <<Head(fichier)>> \o Financements(Tail(fichier))
         ELSE Financements(Tail(fichier))

\* nom was registered, and mot_de_passe is the password given then.
EnregistreAvec(nom, mot_de_passe) ==
    LET f == Financements(fichier_transactions)
    IN \E j \in 1..Len(f) :
           /\ f[j].destinataire = nom
           /\ j <= Len(fichier_utilisateurs)
           /\ fichier_utilisateurs[j][2] = hacher_mot_de_passe(mot_de_passe)

\* C18: a login succeeds exactly when the typed username was registered and
\* the typed password is the one given at that registration; with a wrong
\* password or an unknown username it fails; and every login attempt leaves
\* both files (all balances, the log) unchanged.
C18_ConnexionSiEtSeulementSiEnregistre ==
    [][ retour'.op = "connecter_utilisateur"
        => \A nom \in Noms, mot_de_passe \in MotsDePasseConnexion :
             ConnecterUtilisateur(nom, mot_de_passe)
             => /\ (retour'.val = "nom_utilisateur")
                     <=> EnregistreAvec(nom, mot_de_passe)
                /\ UNCHANGED <<fichier_utilisateurs, fichier_transactions>> ]_vars

\* C19: every input typed at the main menu or at the user menu that is not an
\* entry of that menu, text that is not a number included, is reported as
\* invalid and the same menu is shown again: the program neither crashes nor
\* leaves the loop on it.
C19_EntreeInvalideRedemandee ==
    [][ (ActionInvalide \/ ActionNonNumerique)
        => /\ pc' = pc
           /\ retour'.message \in {"Action invalide.", "Action utilisateur invalide."} ]_vars

RECURSIVE SoldeSelonLeJournal(_, _)
\* The amounts of the lines of the log received by u, minus amount + fee of
\* the lines sent by u.
SoldeSelonLeJournal(fichier, u) ==
    IF fichier = <<>> THEN 0
    ELSE (IF Head(fichier).destinataire = u THEN Head(fichier).montant ELSE 0)
         - (IF Head(fichier).expediteur = u
            THEN Head(fichier).montant + Head(fichier).frais ELSE 0)
         + SoldeSelonLeJournal(Tail(fichier), u)

\* C20: in every reachable state the balance stored on each line of
\* utilisateurs.txt is the sum of the amounts of the logged lines received by
\* the name stored on that line minus the sum of amount + fee of the logged
\* lines sent by it.
C20_SoldesSelonLeJournal ==
    \A i \in 1..Len(fichier_utilisateurs) :
        fichier_utilisateurs[i][3]
            = SoldeSelonLeJournal(fichier_transactions, fichier_utilisateurs[i][1])

RECURSIVE SommeDesSoldes(_)
\* The sum of the balances stored on the lines of utilisateurs.txt.
SommeDesSoldes(fichier) ==
    IF fichier = <<>> THEN 0
    ELSE Head(fichier)[3] + SommeDesSoldes(Tail(fichier))

RECURSIVE SommeDesFrais(_)
\* The sum of the fee fields of the lines of transactions.txt.
SommeDesFrais(fichier) ==
    IF fichier = <<>> THEN 0
    ELSE Head(fichier).frais + SommeDesFrais(Tail(fichier))

\* C21: funds are conserved: in every reachable state the stored balances of
\* all accounts plus the fees of all logged transactions add up to
\* SOLDE_INITIAL times the number of accounts.
C21_FondsConserves ==
    SommeDesSoldes(fichier_utilisateurs) + SommeDesFrais(fichier_transactions)
        = SOLDE_INITIAL * Len(fichier_utilisateurs)

\* C22: no line of the log has its sender equal to its receiver, whatever
\* non-empty names were registered, the administrative account's included,
\* and whatever transfers were made.
C22_ExpediteurDifferentDuDestinataire ==
    \A k \in 1..Len(fichier_transactions) :
        fichier_transactions[k].expediteur # fichier_transactions[k].destinataire

\* ------------------------------------ runs where tiny amounts are typed too
\* Typed names: empty and two plain names.
NomsSimples == { <<>>, <<"alice">>, <<"bob">> }

\* Typed amounts, in thousandths of a dollar: 0 $, 0.005 $, 800.005 $.
PetitsMontants == { 0, 5, 800005 }

NextPetitsMontants ==
    \/ \E nom \in NomsSimples, mot_de_passe \in MotsDePasse :
           EnregistrerUtilisateur(nom, mot_de_passe)
    \/ \E nom \in NomsSimples, mot_de_passe \in MotsDePasseConnexion :
           ConnecterUtilisateur(nom, mot_de_passe)
    \/ \E destinataire \in NomsSimples, montant_dollars \in PetitsMontants :
           EnvoyerArgent(destinataire, montant_dollars)
    \/ EnvoyerArgentMontantInvalide
    \/ \E destinataire \in NomsSimples, montant_dollars \in PetitsMontants,
          etape \in 1..2 :
           ArretPendantEnvoi(destinataire, montant_dollars, etape)
    \/ ConsulterSolde
    \/ ConsulterTransactions
    \/ SeDeconnecter
    \/ Quitter
    \/ ActionInvalide
    \/ ActionNonNumerique

SpecPetitsMontants == Init /\ [][NextPetitsMontants]_vars

\* C23: every line appended by envoyer_argent records an amount of at least
\* 1 cent, for every positive amount typed, those below one cent included.
C23_MontantEnregistrePositif ==
    [][ (/\ retour'.op = "envoyer_argent"
         /\ Len(fichier_transactions') > Len(fichier_transactions))
        => DerniereTransaction(fichier_transactions').montant >= 1 ]_vars

\* The inner loop of main() runs for the name returned by the last login.
SessionOuverte == pc = "menu_utilisateur" /\ nom_utilisateur # Aucun

\* C24: a transfer, a balance query or a history query is made only inside a
\* session, for the name of that session, and the sender of every line a
\* transfer appends is that name; a session is opened only by a login that
\* succeeded with that name and keeps its name until it ends; choosing logout
\* ends it, so nothing is made for that name until a new login succeeds.
C24_OperationsSousSession ==
    [][ /\ retour'.op \in {"envoyer_argent", "consulter_solde",
                           "consulter_transactions"}
           => /\ SessionOuverte
              /\ nom_utilisateur' = nom_utilisateur
              /\ Len(fichier_transactions') > Len(fichier_transactions)
                 => DerniereTransaction(fichier_transactions').expediteur
                      = nom_utilisateur
        /\ (~SessionOuverte /\ SessionOuverte')
           => /\ retour'.op = "connecter_utilisateur"
              /\ retour'.val = "nom_utilisateur"
              /\ \E mot_de_passe \in MotsDePasseConnexion :
                     ConnecterUtilisateur(nom_utilisateur', mot_de_passe)
        /\ (SessionOuverte /\ SessionOuverte')
           => nom_utilisateur' = nom_utilisateur
        /\ (pc = "menu_utilisateur" /\ retour'.message = "Menu Principal")
           => ~SessionOuverte' ]_vars

C24_Temoin ==
    /\ pc = "menu_principal"
    /\ retour.message = "Menu Principal"
    /\ \E k \in 1..Len(fichier_transactions) :
           /\ fichier_transactions[k].expediteur # NOM_UTILISATEUR_ADMIN
           /\ fichier_transactions[k].destinataire
                = fichier_utilisateurs[Len(fichier_utilisateurs)][1]

====
